---- MODULE Spec2Model ----
(***************************************************************************)
(* Model of pymatgen/io/lammps/data.py: the assembly of a LAMMPS data file *)
(* from a force field and per-molecule-type topologies                     *)
(* (LammpsForceFieldData), and its text codec.                             *)
(*                                                                         *)
(* Python lists are sequences; a 0-based Python index i is position i + 1. *)
(* A raised exception ends the run of the function: pc = "raised" and err  *)
(* names the exception.                                                    *)
(***************************************************************************)
EXTENDS Integers, Sequences, FiniteSets, TLC

(* ------------------------------ bounds -------------------------------- *)
MaxTypes == 2
\* number of molecule types in the mols list is 1..MaxTypes
MaxAtoms == 2
\* atoms per molecule type is 1..MaxAtoms
MaxCount == 2
\* repeat count of a molecule type is 0..MaxCount
MaxSites == 3
\* sites of the molecule given to get_basic_system_info is 0..MaxSites
MaxRows == 1
MaxLines == 4
\* rows of a table of the LammpsForceFieldData object that is written is
\* 0..MaxRows (1..MaxRows for the atoms)
MaxEntries == 3
\* bonded-term entries in the topologies of all molecule types together is
\* 0..MaxEntries

VARIABLES
    op,               \* the function under study in this run
    pc,               \* position in the running function
    err,              \* name of the raised exception, "" when none
    mols,             \* mols[t]: atom count of molecule type t (len(mols[t]))
    mols_number,      \* mols_number[t]: repeat count of molecule type t
    topologies,       \* one Topology per molecule type
    molecule,         \* the assembled molecule: its sites, in order
    atomic_masses_dict, \* label -> <<atom type id, mass>>
    mol_type, num_mol_id, mol_atom_id, \* loop counters (0-based)
    shift_, mol_id, tmp,
    atom_to_mol,      \* dict: global atom index -> <<mol_type, mol_id, local atom>>
    molid_to_atomid,  \* list indexed by global molecule id
    atoms_data,       \* emitted atom records
    i,                \* index of the site being emitted
    param_map,        \* key_to_id of the scanned category: label tuple -> type id
    mol_param_id,     \* loop counter of get_param_data (0-based)
    skip,             \* entries skipped so far
    param_data,       \* emitted bonded-term records
    scanned,          \* history: the entries visited by the scan, in order
    elements,         \* get_basic_system_info: the dict label -> mass, as items
    forcefield,       \* get_param_coeff: the ForceField's attribute param_name
    param_name,       \* get_param_coeff: the category asked for
    param_coeffs,     \* get_param_coeff: the coefficient table
    obj,              \* the LammpsForceFieldData object that is written
    lines,            \* the text of the data file, line by line
    lineno,           \* parse_data_file: lines read so far
    parse_key,        \* parse_data_file: its local "key", "" for None
    data,             \* parse_data_file: the dict it fills
    obj2,             \* the LammpsForceFieldData object from_file returns
    text2             \* the text written from obj2, line by line

inputVars == <<mols, mols_number, topologies, molecule, atomic_masses_dict>>
remapVars == <<mol_type, num_mol_id, mol_atom_id, shift_, mol_id, tmp,
               atom_to_mol, molid_to_atomid>>
emitVars == <<atoms_data, i>>
paramVars == <<param_map, mol_param_id, skip, param_data, scanned>>
infoVars == <<elements>>
coeffVars == <<forcefield, param_name, param_coeffs>>
codecVars == <<obj, lines, lineno, parse_key, data, obj2, text2>>
restVars == <<infoVars, coeffVars, codecVars>>
vars == <<op, pc, err, inputVars, remapVars, emitVars, paramVars, restVars>>

(* ------------------------------ helpers ------------------------------- *)
\* Python list indexing with a non-negative index
At(list, idx) == list[idx + 1]

RECURSIVE SumTo(_, _)
SumTo(f, n) == IF n = 0 THEN 0 ELSE f[n] + SumTo(f, n - 1)

(* ---------------- the assembled molecule (input of assembly) ---------- *)
\* Element symbols and their atomic masses (the composition provider).
ElementMass == [C |-> 12, H |-> 1, O |-> 16]
ElementOf == <<"C", "H", "O">>

\* The site label of local atom l of molecule type t (both 0-based).
SiteLabel(t, l) == ElementOf[((t + l) % 3) + 1]

\* Sites of one instance of molecule type t with n atoms.
MolSites(t, n) == [l \in 1..n |-> [label |-> SiteLabel(t, l - 1),
                                   mass |-> ElementMass[SiteLabel(t, l - 1)],
                                   x |-> 100 * (t + 1) + l - 1]]

RECURSIVE Repeat(_, _)
Repeat(s, k) == IF k = 0 THEN <<>> ELSE s \o Repeat(s, k - 1)

\* "molecule (Molecule): the molecule assembled from the molecules in the
\* mols list": all instances of type 0, then all of type 1, ...
RECURSIVE Assemble(_, _, _)
Assemble(ms, ns, t) ==
    IF t > Len(ms) THEN <<>>
    ELSE Repeat(MolSites(t - 1, ms[t]), ns[t]) \o Assemble(ms, ns, t + 1)

(* -------------------- get_basic_system_info --------------------------- *)
\* d[key] = val on a dict held as its list of items <<key, val>>: a dict
\* keeps the position of a key's first insertion and the value of its last
\* assignment.
DictSet(d, key, val) ==
    IF \E k \in 1..Len(d) : d[k][1] = key
    THEN [k \in 1..Len(d) |-> IF d[k][1] = key THEN <<key, val>> ELSE d[k]]
    ELSE Append(d, <<key, val>>)

\* elements after "for s in molecule: elements[label] = mass"
RECURSIVE ElementsDict(_)
ElementsDict(sites) ==
    IF sites = <<>> THEN <<>>
    ELSE DictSet(ElementsDict(SubSeq(sites, 1, Len(sites) - 1)),
                 sites[Len(sites)].label, sites[Len(sites)].mass)

\* the insertion that puts an item before the items of equal mass
InsertByMass_BeforeEqual(sorted, item) ==
    LET n == Cardinality({k \in 1..Len(sorted) : sorted[k][2] < item[2]})
    IN  SubSeq(sorted, 1, n) \o <<item>> \o SubSeq(sorted, n + 1, Len(sorted))

\* list.insert of item into an ascending list, after every item whose mass is
\* not greater: what a stable sort does with the items taken in order.
InsertByMass(sorted, item) ==
    LET before == {k \in 1..Len(sorted) : sorted[k][2] <= item[2]}
        n == Cardinality(before)
    IN  SubSeq(sorted, 1, n) \o <<item>> \o SubSeq(sorted, n + 1, Len(sorted))

\* sorted(elements_items, key=lambda el_item: el_item[1]): stable, ascending
RECURSIVE SortedByMass(_)
SortedByMass(items) ==
    IF items = <<>> THEN <<>>
    ELSE InsertByMass(SortedByMass(SubSeq(items, 1, Len(items) - 1)),
                      items[Len(items)])

\* atomic_masses_dict as the ordered list of <<label, <<id, mass>>>>
AtomicMassesItems(items) ==
    LET sorted == SortedByMass(items)
    IN  [k \in 1..Len(sorted) |-> <<sorted[k][1], <<k, sorted[k][2]>>>>]

\* OrderedDict(items) as a mapping label -> <<id, mass>>; the ids are the
\* positions of the items, so the mapping holds the order too
AtomicMassesOf(elems) ==
    LET items == AtomicMassesItems(elems)
    IN  [lab \in {items[k][1] : k \in 1..Len(items)} |->
            items[CHOOSE k \in 1..Len(items) : items[k][1] = lab][2]]

\* the atomic_masses_dict get_basic_system_info returns for the sites
AtomicMassesDict(sites) == AtomicMassesOf(ElementsDict(sites))

\* body of "for s in molecule"
InfoSite ==
    /\ pc = "info_sites"
    /\ i < Len(molecule)
    /\ elements' = DictSet(elements, At(molecule, i).label, At(molecule, i).mass)
    /\ i' = i + 1
    /\ UNCHANGED <<op, pc, err, inputVars, remapVars, atoms_data, paramVars, coeffVars,
                   codecVars>>

\* the sort, the numbering and the return
InfoSort ==
    /\ pc = "info_sites"
    /\ i = Len(molecule)
    /\ atomic_masses_dict' = AtomicMassesOf(elements)
    /\ pc' = "info_done"
    /\ UNCHANGED <<op, err, mols, mols_number, topologies, molecule, remapVars,
                   emitVars, paramVars, restVars>>

NextInfo == InfoSite \/ InfoSort

(* --------------------------- topologies ------------------------------- *)
\* The charge list of a Topology for a molecule type with n atoms.
FullCharges(t, n) == [l \in 1..n |-> 10 * (t + 1) + l]

\* A Topology is [has_charges, charges, params]: it either has no attribute
\* "charges" (has_charges = FALSE), or has it with an empty list, or with one
\* charge per local atom; params is its list of entries of the scanned
\* category (bonds, angles, dihedrals or imdihedrals), each entry
\* [atoms |-> local atom indices, label |-> label tuple].

(* -------------------------- get_atoms_data ---------------------------- *)
nmols == Len(mols)

\* the index without the offset of the earlier molecule types
RemapAtomId_NoShift == num_mol_id * At(mols, mol_type) + mol_atom_id

\* body of "for mol_atom_id in range(natoms)"
RemapAtomId == num_mol_id * At(mols, mol_type) + mol_atom_id + shift_

RemapAtom ==
    /\ pc = "remap"
    /\ mol_type < nmols
    /\ num_mol_id < At(mols_number, mol_type)
    /\ mol_atom_id < At(mols, mol_type)
    /\ LET atom_id == RemapAtomId
       IN  /\ atom_to_mol' =
                 [g \in DOMAIN atom_to_mol \cup {atom_id} |->
                     IF g = atom_id THEN <<mol_type, mol_id, mol_atom_id>>
                     ELSE atom_to_mol[g]]
           /\ tmp' = Append(tmp, atom_id)
    /\ mol_atom_id' = mol_atom_id + 1
    /\ UNCHANGED <<op, pc, err, restVars, inputVars, emitVars, paramVars, mol_type, num_mol_id,
                   shift_, mol_id, molid_to_atomid>>

\* end of one pass of "for num_mol_id in range(mols_number[mol_type])"
RemapEndMol ==
    /\ pc = "remap"
    /\ mol_type < nmols
    /\ num_mol_id < At(mols_number, mol_type)
    /\ mol_atom_id = At(mols, mol_type)
    /\ mol_id' = mol_id + 1
    /\ molid_to_atomid' = Append(molid_to_atomid, tmp)
    /\ tmp' = <<>>
    /\ mol_atom_id' = 0
    /\ num_mol_id' = num_mol_id + 1
    /\ UNCHANGED <<op, pc, err, restVars, inputVars, emitVars, paramVars, mol_type, shift_, atom_to_mol>>

\* end of one pass of "for mol_type in range(nmols)"
RemapEndType ==
    /\ pc = "remap"
    /\ mol_type < nmols
    /\ num_mol_id = At(mols_number, mol_type)
    /\ shift_' = shift_ + At(mols, mol_type) * At(mols_number, mol_type)
    /\ mol_type' = mol_type + 1
    /\ num_mol_id' = 0
    /\ UNCHANGED <<op, pc, err, restVars, inputVars, emitVars, paramVars, mol_atom_id, mol_id, tmp,
                   atom_to_mol, molid_to_atomid>>

RemapDone ==
    /\ pc = "remap"
    /\ mol_type = nmols
    /\ pc' = "emit"
    /\ UNCHANGED <<op, err, restVars, inputVars, remapVars, emitVars, paramVars>>

\* The charge of site i, or the exception its lookup raises.
\* hasattr(topologies[0], "charges") guards the read of
\* topologies[mol_type - 1].charges[mol_atom_id - 1].
ChargeOutcome(owner_type, local) ==
    IF ~ At(topologies, 0).has_charges THEN [raised |-> "", charge |-> 0]
    ELSE IF ~ At(topologies, owner_type).has_charges
         THEN [raised |-> "AttributeError", charge |-> 0]
    ELSE IF At(topologies, owner_type).charges = <<>>
         THEN [raised |-> "", charge |-> 0]
    ELSE IF local >= Len(At(topologies, owner_type).charges)
         THEN [raised |-> "IndexError", charge |-> 0]
    ELSE [raised |-> "", charge |-> At(At(topologies, owner_type).charges, local)]

\* the 0-based site index used as the atom id
EmitAtomId_ZeroBased == i

\* "atom_id = i + 1"
EmitAtomId == i + 1

\* body of "for i, site in enumerate(molecule)"
EmitAtom ==
    /\ pc = "emit"
    /\ i < Len(molecule)
    /\ IF i \notin DOMAIN atom_to_mol
       THEN /\ pc' = "raised" /\ err' = "KeyError"
            /\ UNCHANGED <<atoms_data, i>>
       ELSE LET site == At(molecule, i)
                atom_type == atomic_masses_dict[site.label][1]
                out == ChargeOutcome(atom_to_mol[i][1], atom_to_mol[i][3])
            IN  IF out.raised # ""
                THEN /\ pc' = "raised" /\ err' = out.raised
                     /\ UNCHANGED <<atoms_data, i>>
                ELSE /\ atoms_data' = Append(atoms_data,
                            <<EmitAtomId, atom_to_mol[i][2] + 1, atom_type,
                              out.charge, site.x>>)
                     /\ i' = i + 1
                     /\ UNCHANGED <<pc, err>>
    /\ UNCHANGED <<op, restVars, inputVars, remapVars, paramVars>>

\* "return atoms_data, molid_to_atomid"
EmitDone ==
    /\ pc = "emit"
    /\ i = Len(molecule)
    /\ pc' = "atoms_done"
    /\ UNCHANGED <<op, err, restVars, inputVars, remapVars, emitVars, paramVars>>

NextAtoms == RemapAtom \/ RemapEndMol \/ RemapEndType \/ RemapDone
             \/ EmitAtom \/ EmitDone

\* What a Topology holds as charges: no such attribute, an empty list, or one
\* charge per atom. The first topology has one kind, the others another.
ChargeKinds == {"absent", "empty", "full"}

\* Molecule-type lists of every length 1..MaxTypes
TypeCounts == 1..MaxTypes

\* The variables of the functions that do not run are left at rest.
IdleInfo == elements = <<>>
IdleCoeff == forcefield = <<>> /\ param_name = "" /\ param_coeffs = <<>>
IdleCodec ==
    /\ obj = <<>> /\ lines = <<>> /\ lineno = 0 /\ parse_key = ""
    /\ data = <<>> /\ obj2 = <<>> /\ text2 = <<>>

InitLocals ==
    /\ err = ""
    /\ mol_type = 0 /\ num_mol_id = 0 /\ mol_atom_id = 0
    /\ shift_ = 0 /\ mol_id = 0 /\ tmp = <<>>
    /\ atom_to_mol = <<>> /\ molid_to_atomid = <<>>
    /\ atoms_data = <<>> /\ i = 0
    /\ mol_param_id = 0 /\ skip = 0 /\ param_data = <<>> /\ scanned = <<>>

InitAtoms ==
    /\ op = "get_atoms_data"
    /\ \E n \in TypeCounts :
          /\ mols \in [1..n -> 1..MaxAtoms]
          /\ mols_number \in [1..n -> 0..MaxCount]
          /\ \E first \in ChargeKinds, rest \in ChargeKinds :
                topologies = [t \in 1..n |->
                    [has_charges |-> (IF t = 1 THEN first ELSE rest) # "absent",
                     charges |-> IF (IF t = 1 THEN first ELSE rest) = "full"
                                 THEN FullCharges(t - 1, mols[t]) ELSE <<>>,
                     params |-> <<>>]]
    /\ param_map = <<>>
    /\ molecule = Assemble(mols, mols_number, 1)
    /\ atomic_masses_dict = AtomicMassesDict(molecule)
    /\ InitLocals /\ pc = "remap"
    /\ IdleInfo /\ IdleCoeff /\ IdleCodec

SpecAtoms == InitAtoms /\ [][NextAtoms]_vars

(* ----------- the maps get_atoms_data returns, in closed form ----------- *)
\* The molecule instances in the order of the two outer loops:
\* <<mol_type, num_mol_id>>, types in list order, instances within a type.
RECURSIVE InstancesFrom(_, _, _)
InstancesFrom(ms, ns, t) ==
    IF t > Len(ms) THEN <<>>
    ELSE [k \in 1..ns[t] |-> <<t - 1, k - 1>>] \o InstancesFrom(ms, ns, t + 1)

Instances(ms, ns) == InstancesFrom(ms, ns, 1)

\* Atoms owned by the instances before the one with global molecule id m.
RECURSIVE AtomsBefore(_, _, _)
AtomsBefore(ms, ns, m) ==
    IF m = 0 THEN 0
    ELSE At(ms, At(Instances(ms, ns), m - 1)[1]) + AtomsBefore(ms, ns, m - 1)

\* molid_to_atomid: global molecule id -> its global atom indices
MolidToAtomid(ms, ns) ==
    [m \in 1..Len(Instances(ms, ns)) |->
        [l \in 1..At(ms, Instances(ms, ns)[m][1]) |->
            AtomsBefore(ms, ns, m - 1) + l - 1]]

\* atom_to_mol: global atom index -> <<mol_type, mol_id, local atom>>
AtomToMol(ms, ns) ==
    LET m2a == MolidToAtomid(ms, ns)
        owner(g) == CHOOSE m \in 1..Len(m2a) : \E l \in 1..Len(m2a[m]) : m2a[m][l] = g
    IN  [g \in UNION {{m2a[m][l] : l \in 1..Len(m2a[m])} : m \in 1..Len(m2a)} |->
            <<Instances(ms, ns)[owner(g)][1], owner(g) - 1,
              g - m2a[owner(g)][1]>>]

(* -------------------------- get_param_data ---------------------------- *)
Reversed(t) == [k \in 1..Len(t) |-> t[Len(t) + 1 - k]]

\* list[idx] as Python evaluates it: a negative index counts from the end,
\* an index outside -len..len-1 raises IndexError.
PyGet(list, idx) ==
    IF idx >= 0 /\ idx < Len(list) THEN [raised |-> "", val |-> list[idx + 1]]
    ELSE IF idx < 0 /\ idx >= - Len(list)
         THEN [raised |-> "", val |-> list[Len(list) + idx + 1]]
    ELSE [raised |-> "IndexError", val |-> 0]

\* getattr(topologies[mol_type], param_name)
ParamObj(t) == At(topologies, t).params

\* "if hasattr(topologies[0], param_name) and getattr(topologies[0], param_name)"
ParamGuard == ParamObj(0) # <<>>

\* the lookup without the reversed-key fallback
ResolveKey_ForwardOnly(param_type, map) ==
    IF param_type \in DOMAIN map THEN param_type ELSE <<>>

\* The key chosen for a label tuple: the tuple itself when it is in
\* param_map, else its reverse when that is, else None. None is <<>> here:
\* "if key:" sends None and the empty tuple down the same branch.
ResolveKey(param_type, map) ==
    IF param_type \in DOMAIN map THEN param_type
    ELSE IF Reversed(param_type) \in DOMAIN map THEN Reversed(param_type)
    ELSE <<>>

\* the record id without the compaction of skipped entries
RecordId_NoSkip(param_id, skipped) == param_id + 1

\* "param_id + 1 - skip"
RecordId(param_id, skipped) == param_id + 1 - skipped

\* param_atomids: local atom id -> global atom id + 1, or the IndexError
RECURSIVE ParamAtomIds(_, _)
ParamAtomIds(atomids, owned) ==
    IF atomids = <<>> THEN [raised |-> "", val |-> <<>>]
    ELSE LET head == ParamAtomIds(SubSeq(atomids, 1, Len(atomids) - 1), owned)
             got == PyGet(owned, atomids[Len(atomids)])
         IN  IF head.raised # "" THEN head
             ELSE IF got.raised # "" THEN [raised |-> got.raised, val |-> <<>>]
             ELSE [raised |-> "", val |-> Append(head.val, got.val + 1)]

\* the skip counter left as it was
SkipNext_Forgotten == skip

\* "skip += 1"
SkipNext == skip + 1

ParamStart ==
    /\ pc = "param_start"
    /\ IF ParamGuard
       THEN /\ pc' = "scan"
            /\ mol_id' = 0 /\ skip' = 0 /\ shift_' = 0
            /\ mol_type' = 0 /\ num_mol_id' = 0 /\ mol_param_id' = 0
       ELSE /\ pc' = "param_done"
            /\ UNCHANGED <<mol_id, skip, shift_, mol_type, num_mol_id, mol_param_id>>
    /\ param_data' = <<>>
    /\ UNCHANGED <<op, err, restVars, inputVars, emitVars, param_map, scanned,
                   mol_atom_id, tmp, atom_to_mol, molid_to_atomid>>

\* body of "for mol_param_id in range(nparams)"
ScanEntry ==
    /\ pc = "scan"
    /\ mol_type < nmols
    /\ num_mol_id < At(mols_number, mol_type)
    /\ mol_param_id < Len(ParamObj(mol_type))
    /\ LET nparams == Len(ParamObj(mol_type))
           param_id == num_mol_id * nparams + mol_param_id + shift_
           param == At(ParamObj(mol_type), mol_param_id)
           owned == PyGet(molid_to_atomid, mol_id)
           ids == IF owned.raised # "" THEN [raised |-> owned.raised, val |-> <<>>]
                  ELSE ParamAtomIds(param.atoms, owned.val)
           key == ResolveKey(param.label, param_map)
       IN  IF ids.raised # ""
           THEN /\ pc' = "raised" /\ err' = ids.raised
                /\ UNCHANGED <<param_data, skip, scanned, mol_param_id>>
           ELSE /\ IF key # <<>>
                   THEN /\ param_data' = Append(param_data,
                               [id |-> RecordId(param_id, skip),
                                type |-> param_map[key],
                                atoms |-> ids.val])
                        /\ skip' = skip
                   ELSE /\ skip' = SkipNext
                        /\ param_data' = param_data
                /\ scanned' = Append(scanned,
                       [mol_type |-> mol_type, mol_id |-> mol_id,
                        entry |-> mol_param_id, label |-> param.label,
                        emitted |-> key # <<>>])
                /\ mol_param_id' = mol_param_id + 1
                /\ UNCHANGED <<pc, err>>
    /\ UNCHANGED <<op, restVars, inputVars, emitVars, param_map, mol_type, num_mol_id,
                   mol_atom_id, shift_, mol_id, tmp, atom_to_mol, molid_to_atomid>>

\* the instance counter restarted with every molecule type
NextMolId_PerType == num_mol_id + 1

\* "mol_id += 1"
NextMolId == mol_id + 1

\* end of one pass of "for num_mol_id in range(mols_number[mol_type])"
ScanEndMol ==
    /\ pc = "scan"
    /\ mol_type < nmols
    /\ num_mol_id < At(mols_number, mol_type)
    /\ mol_param_id = Len(ParamObj(mol_type))
    /\ mol_id' = NextMolId
    /\ num_mol_id' = num_mol_id + 1
    /\ mol_param_id' = 0
    /\ UNCHANGED <<op, pc, err, restVars, inputVars, emitVars, param_map, skip, param_data,
                   scanned, mol_type, mol_atom_id, shift_, tmp, atom_to_mol,
                   molid_to_atomid>>

\* end of one pass of "for mol_type in range(nmols)"
ScanEndType ==
    /\ pc = "scan"
    /\ mol_type < nmols
    /\ num_mol_id = At(mols_number, mol_type)
    /\ shift_' = shift_ + Len(ParamObj(mol_type)) * At(mols_number, mol_type)
    /\ mol_type' = mol_type + 1
    /\ num_mol_id' = 0
    /\ UNCHANGED <<op, pc, err, restVars, inputVars, emitVars, paramVars, mol_atom_id,
                   mol_id, tmp, atom_to_mol, molid_to_atomid>>

\* "return param_data"
ScanDone ==
    /\ pc = "scan"
    /\ mol_type = nmols
    /\ pc' = "param_done"
    /\ UNCHANGED <<op, err, restVars, inputVars, remapVars, emitVars, paramVars>>

NextParam == ParamStart \/ ScanEntry \/ ScanEndMol \/ ScanEndType \/ ScanDone

\* Label tuples of the topology entries, and the key_to_id maps
\* get_param_coeff can return for them.
LabelCH == <<"C", "H">>
LabelHC == <<"H", "C">>
LabelXX == <<"X", "X">>
Labels == {LabelCH, LabelHC, LabelXX}
ParamMaps == { (LabelCH :> 1), (LabelCH :> 1) @@ (LabelHC :> 2) }

\* The lists of molecule types (atom counts) the scan is run on.
ParamMols == { <<MaxAtoms>>, <<1, MaxAtoms>> }

\* The entries of a topology: entry j joins local atoms 0 and natoms - 1.
EntriesOf(labels, natoms) ==
    [j \in 1..Len(labels) |-> [atoms |-> <<0, natoms - 1>>, label |-> labels[j]]]

LabelSeqs == UNION {[1..n -> Labels] : n \in 0..MaxEntries}

RECURSIVE TotalLen(_, _)
TotalLen(seqs, n) == IF n = 0 THEN 0 ELSE Len(seqs[n]) + TotalLen(seqs, n - 1)

\* get_param_data as from_forcefield_and_topology calls it: after
\* get_atoms_data, with the molid_to_atomid it returned.
InitParam ==
    /\ op = "get_param_data"
    /\ mols \in ParamMols
    /\ mols_number \in [1..Len(mols) -> 0..MaxCount]
    /\ \E labs \in [1..Len(mols) -> LabelSeqs] :
          /\ TotalLen(labs, Len(mols)) <= MaxEntries
          /\ topologies = [t \in 1..Len(mols) |->
              [has_charges |-> FALSE, charges |-> <<>>,
               params |-> EntriesOf(labs[t], mols[t])]]
    /\ param_map \in ParamMaps
    /\ molecule = <<>> /\ atomic_masses_dict = <<>>
    /\ pc = "param_start" /\ err = ""
    /\ mol_type = 0 /\ num_mol_id = 0 /\ mol_atom_id = 0
    /\ shift_ = 0 /\ mol_id = 0 /\ tmp = <<>>
    /\ atom_to_mol = AtomToMol(mols, mols_number)
    /\ molid_to_atomid = MolidToAtomid(mols, mols_number)
    /\ atoms_data = <<>> /\ i = 0
    /\ mol_param_id = 0 /\ skip = 0 /\ param_data = <<>> /\ scanned = <<>>
    /\ IdleInfo /\ IdleCoeff /\ IdleCodec

SpecParam == InitParam /\ [][NextParam]_vars

\* Entries of a malformed topology: entry j joins local atom 0 and local
\* atom idx, which may be negative or not below the atom count.
EntriesAt(n, idx) == [j \in 1..n |-> [atoms |-> <<0, idx>>, label |-> LabelCH]]

\* get_param_data called with topologies whose local atom indices are not
\* all within 0..natoms-1
InitParamMalformed ==
    /\ op = "get_param_data"
    /\ mols \in ParamMols
    /\ mols_number \in [1..Len(mols) -> 0..MaxCount]
    /\ \E count \in [1..Len(mols) -> 0..MaxEntries], idx \in [1..Len(mols) -> -1..MaxAtoms] :
          topologies = [t \in 1..Len(mols) |->
              [has_charges |-> FALSE, charges |-> <<>>,
               params |-> EntriesAt(count[t], idx[t])]]
    /\ param_map = (LabelCH :> 1)
    /\ molecule = <<>> /\ atomic_masses_dict = <<>>
    /\ pc = "param_start" /\ err = ""
    /\ mol_type = 0 /\ num_mol_id = 0 /\ mol_atom_id = 0
    /\ shift_ = 0 /\ mol_id = 0 /\ tmp = <<>>
    /\ atom_to_mol = AtomToMol(mols, mols_number)
    /\ molid_to_atomid = MolidToAtomid(mols, mols_number)
    /\ atoms_data = <<>> /\ i = 0
    /\ mol_param_id = 0 /\ skip = 0 /\ param_data = <<>> /\ scanned = <<>>
    /\ IdleInfo /\ IdleCoeff /\ IdleCodec

SpecParamMalformed == InitParamMalformed /\ [][NextParam]_vars

(* ===================== properties of get_atoms_data =================== *)
TotalAtoms == SumTo([t \in 1..Len(mols) |-> mols[t] * mols_number[t]], Len(mols))

\* C1: get_atoms_data emits one atom record per atom of every instance of
\* every molecule type: the records emitted so far carry the atom ids 1, 2,
\* 3, ... in emission order, no site is without an entry of atom_to_mol
\* (no KeyError), and on return there are exactly
\* sum over types of (atom count * repeat count) records.
C1_AtomCountAndIds ==
    op = "get_atoms_data" =>
        /\ \A k \in 1..Len(atoms_data) : atoms_data[k][1] = k
        /\ err # "KeyError"
        /\ pc = "atoms_done" => Len(atoms_data) = TotalAtoms

\* A run that returned at least three records for two molecule types, one of
\* them repeated twice.
C1_Witness ==
    /\ op = "get_atoms_data" /\ pc = "atoms_done"
    /\ Len(mols) = 2 /\ Len(atoms_data) >= 3
    /\ \E t \in 1..Len(mols) : mols_number[t] = 2

\* <<type, molecule id, local atom>> triples in the order of the three loops
TripleBefore(a, b) ==
    \/ a[1] < b[1]
    \/ a[1] = b[1] /\ a[2] < b[2]
    \/ a[1] = b[1] /\ a[2] = b[2] /\ a[3] < b[3]

\* C6: the remapping hands out the 0-based global indices 0, 1, 2, ... in
\* the order types -> instances -> local atoms; once built, molid_to_atomid
\* and atom_to_mol are inverse of each other, the global molecule ids are
\* 0..M-1 in instance order, and a type with repeat count zero owns no atom
\* and no molecule id.
C6_Remap ==
    op = "get_atoms_data" =>
        /\ DOMAIN atom_to_mol = 0..(Cardinality(DOMAIN atom_to_mol) - 1)
        /\ \A g, h \in DOMAIN atom_to_mol :
              g < h => TripleBefore(atom_to_mol[g], atom_to_mol[h])
        /\ pc # "remap" =>
              /\ Len(molid_to_atomid) = SumTo(mols_number, Len(mols))
              /\ \A m \in 1..Len(molid_to_atomid) :
                    /\ Len(molid_to_atomid[m]) = At(mols, Instances(mols, mols_number)[m][1])
                    /\ \A l \in 1..Len(molid_to_atomid[m]) :
                          /\ molid_to_atomid[m][l] \in DOMAIN atom_to_mol
                          /\ atom_to_mol[molid_to_atomid[m][l]] =
                                <<Instances(mols, mols_number)[m][1], m - 1, l - 1>>
              /\ \A g \in DOMAIN atom_to_mol :
                    /\ atom_to_mol[g][2] + 1 \in 1..Len(molid_to_atomid)
                    /\ atom_to_mol[g][3] + 1 \in
                          1..Len(molid_to_atomid[atom_to_mol[g][2] + 1])
                    /\ molid_to_atomid[atom_to_mol[g][2] + 1][atom_to_mol[g][3] + 1] = g
                    /\ At(mols_number, atom_to_mol[g][1]) > 0
              /\ Cardinality(DOMAIN atom_to_mol) = TotalAtoms
              /\ molid_to_atomid = MolidToAtomid(mols, mols_number)

\* The remapping is complete for a first type with repeat count zero and a
\* second type with two instances of two atoms.
C6_Witness ==
    /\ op = "get_atoms_data" /\ pc = "emit"
    /\ Len(mols) = 2 /\ mols_number = <<0, 2>> /\ mols[2] = 2
    /\ molid_to_atomid = <<(<<0, 1>>), (<<2, 3>>)>>

(* ===================== properties of get_param_data =================== *)
KeyPresent(label) == label \in DOMAIN param_map \/ Reversed(label) \in DOMAIN param_map

\* number of the entries scanned[1..k] that were emitted
EmittedUpTo(k) == Cardinality({j \in 1..k : scanned[j].emitted})

\* the record of the k-th scanned entry (which was emitted)
RecordOf(k) == param_data[EmittedUpTo(k)]

\* C2: the ids of the records emitted so far are 1, 2, ..., m in emission
\* order, however many entries were skipped and wherever they were skipped.
C2_DenseRecordIds ==
    op = "get_param_data" =>
        \A k \in 1..Len(param_data) : param_data[k].id = k

\* Records were emitted before and after a skipped entry, in two molecule
\* types.
C2_Witness ==
    /\ op = "get_param_data" /\ skip >= 1
    /\ \E a, b, c \in 1..Len(scanned) :
          /\ a < b /\ b < c
          /\ scanned[a].emitted /\ ~ scanned[b].emitted /\ scanned[c].emitted
          /\ scanned[a].mol_type # scanned[c].mol_type

\* C3 as claimed: whenever a label tuple or its reverse is in key_to_id, an
\* entry labelled with the tuple and an entry labelled with its reverse get
\* the same type id.
C3_Original ==
    op = "get_param_data" =>
        \A a, b \in 1..Len(scanned) :
            (/\ scanned[a].label = Reversed(scanned[b].label)
             /\ KeyPresent(scanned[a].label))
            => /\ scanned[a].emitted /\ scanned[b].emitted
               /\ RecordOf(a).type = RecordOf(b).type

\* a label tuple of which exactly one orientation is a key of key_to_id, or
\* which reads the same in both directions and is a key
OneOrientation(label) ==
    /\ KeyPresent(label)
    /\ \/ label = Reversed(label)
       \/ ~ (label \in DOMAIN param_map /\ Reversed(label) \in DOMAIN param_map)

\* C3 amended: when exactly one of a label tuple and its reverse is in
\* key_to_id, an entry labelled with the tuple and an entry labelled with
\* its reverse are both resolved, to the same type id (the id of the key
\* that is present).
C3_ReverseFallback ==
    op = "get_param_data" =>
        \A a, b \in 1..Len(scanned) :
            (/\ scanned[a].label = Reversed(scanned[b].label)
             /\ OneOrientation(scanned[a].label))
            => /\ scanned[a].emitted /\ scanned[b].emitted
               /\ RecordOf(a).type = RecordOf(b).type
               /\ RecordOf(a).type =
                     param_map[IF scanned[a].label \in DOMAIN param_map
                               THEN scanned[a].label ELSE Reversed(scanned[a].label)]

\* An entry labelled (C, H) and one labelled (H, C) were both scanned while
\* only (C, H) is a key.
C3_Witness ==
    /\ op = "get_param_data"
    /\ DOMAIN param_map = {LabelCH}
    /\ \E a, b \in 1..Len(scanned) :
          scanned[a].label = LabelCH /\ scanned[b].label = LabelHC

\* entries of a topology whose key is present, forward or reversed
Resolvable(t) == {j \in 1..Len(topologies[t].params) :
                     KeyPresent(topologies[t].params[j].label)}

TotalResolvable ==
    SumTo([t \in 1..Len(mols) |-> mols_number[t] * Cardinality(Resolvable(t))],
          Len(mols))

TotalEntries ==
    SumTo([t \in 1..Len(mols) |-> mols_number[t] * Len(topologies[t].params)],
          Len(mols))

\* C7 as claimed: on return there is one record for every resolvable entry
\* of every instance of every molecule type; in particular the list is
\* empty only when no instance has a resolvable entry.
C7_EveryResolvableEntryEmitted ==
    (op = "get_param_data" /\ pc = "param_done") =>
        Len(param_data) = TotalResolvable

\* C8: an entry whose label is in key_to_id neither forward nor reversed is
\* skipped and the scan goes on: nothing is raised, an entry is emitted
\* exactly when its forward or reversed key is present, the records are
\* those entries in scan order (with the global atom ids of the instance
\* scanned), emitted + skipped = scanned, and a scan that was entered visits
\* every entry of every instance.
C8_SkipAndContinue ==
    op = "get_param_data" =>
        /\ pc # "raised"
        /\ Len(param_data) + skip = Len(scanned)
        /\ skip = Cardinality({k \in 1..Len(scanned) : ~ scanned[k].emitted})
        /\ \A k \in 1..Len(scanned) :
              /\ scanned[k].emitted <=> KeyPresent(scanned[k].label)
              /\ scanned[k].emitted =>
                    RecordOf(k).atoms =
                        [n \in 1..2 |->
                            At(At(molid_to_atomid, scanned[k].mol_id),
                               At(topologies, scanned[k].mol_type)
                                   .params[scanned[k].entry + 1].atoms[n]) + 1]
        /\ (pc = "param_done" /\ ParamGuard) => Len(scanned) = TotalEntries

\* A scan that returned after skipping an entry and then emitting one that
\* was resolved through the reversed key.
C8_Witness ==
    /\ op = "get_param_data" /\ pc = "param_done" /\ skip >= 1
    /\ \E a, b \in 1..Len(scanned) :
          /\ a < b /\ ~ scanned[a].emitted /\ scanned[b].emitted
          /\ scanned[b].label \notin DOMAIN param_map

(* ================== get_basic_system_info on its own ================== *)
\* Site labels (str(s.ff_map): several labels may share a mass) and masses.
InfoLabels == {"c1", "c2", "h1"}
InfoMasses == {1, 12}
InfoSites == [label : InfoLabels, mass : InfoMasses, x : {0}]

InitInfo ==
    /\ op = "get_basic_system_info"
    /\ molecule \in UNION {[1..n -> InfoSites] : n \in 0..MaxSites}
    /\ mols = <<>> /\ mols_number = <<>> /\ topologies = <<>>
    /\ atomic_masses_dict = <<>>
    /\ InitLocals /\ pc = "info_sites"
    /\ param_map = <<>>
    /\ IdleInfo /\ IdleCoeff /\ IdleCodec

SpecInfo == InitInfo /\ [][NextInfo]_vars

SiteLabels == {molecule[k].label : k \in 1..Len(molecule)}

FirstAppearance(lab) ==
    CHOOSE k \in 1..Len(molecule) :
        /\ molecule[k].label = lab
        /\ \A j \in 1..(k - 1) : molecule[j].label # lab

\* C5: get_basic_system_info gives the K distinct site labels the ids 1..K,
\* each id once; read by ascending id the masses never decrease; two labels
\* of equal mass are numbered in the order of their first appearance among
\* the sites.
C5_MassOrderedIds ==
    (op = "get_basic_system_info" /\ pc = "info_done") =>
        /\ DOMAIN atomic_masses_dict = SiteLabels
        /\ {atomic_masses_dict[a][1] : a \in SiteLabels} = 1..Cardinality(SiteLabels)
        /\ \A a, b \in SiteLabels :
              /\ atomic_masses_dict[a][1] < atomic_masses_dict[b][1]
                    => atomic_masses_dict[a][2] <= atomic_masses_dict[b][2]
              /\ (a # b /\ atomic_masses_dict[a][2] = atomic_masses_dict[b][2])
                    => (atomic_masses_dict[a][1] < atomic_masses_dict[b][1]
                        <=> FirstAppearance(a) < FirstAppearance(b))

\* Three labels were numbered: two of equal mass, and a lighter one that
\* appears last among the sites.
C5_Witness ==
    /\ op = "get_basic_system_info" /\ pc = "info_done"
    /\ Cardinality(SiteLabels) = 3
    /\ \E a, b, c \in SiteLabels :
          /\ a # b
          /\ atomic_masses_dict[a][2] = atomic_masses_dict[b][2]
          /\ atomic_masses_dict[c][2] < atomic_masses_dict[a][2]
          /\ FirstAppearance(c) > FirstAppearance(a)
          /\ FirstAppearance(c) > FirstAppearance(b)

(* ========================== get_param_coeff =========================== *)
\* The keys of a force-field category and the coefficients stored for them.
LabelOH == <<"O", "H">>
BondKeys == {LabelCH, LabelHC, LabelXX, LabelOH}
PairKeys == {<<"C", "C">>, <<"H", "H">>, <<"O", "O">>, <<"C", "H">>}

CoeffValues(key) ==
    CASE key = LabelCH -> <<11, 7>>
      [] key = LabelHC -> <<12, 7>>
      [] key = LabelXX -> <<13, 7>>
      [] key = LabelOH -> <<14, 7>>
      [] key = <<"C", "C">> -> <<21, 5>>
      [] key = <<"H", "H">> -> <<22, 5>>
      [] key = <<"O", "O">> -> <<23, 5>>
      [] OTHER -> <<24, 5>>

\* The orderings of the subsets of a set of keys: what param.items() can
\* yield for a dict with these keys.
RECURSIVE Orderings(_)
Orderings(keys) ==
    {<<>>} \cup UNION {{<<k>> \o rest : rest \in Orderings(keys \ {k})} : k \in keys}

ItemsOf(order) == [k \in 1..Len(order) |-> <<order[k], CoeffValues(order[k])>>]

\* the row id taken as the 0-based position of the item
NonPairId_ZeroBased(idx) == idx

\* "i + 1"
NonPairId(idx) == idx + 1

\* "atom_types_map[key][0]" for key = item[0][0]
PairId(item) == atomic_masses_dict[item[1][1]][1]

\* list.insert of a row into a list ascending by row[0], after every row
\* whose id is not greater
InsertById(sorted, row) ==
    LET n == Cardinality({k \in 1..Len(sorted) : sorted[k][1] <= row[1]})
    IN  SubSeq(sorted, 1, n) \o <<row>> \o SubSeq(sorted, n + 1, Len(sorted))

\* "sorted(param_coeffs, key=lambda ii: ii[0])"
RECURSIVE SortedById(_)
SortedById(rows) ==
    IF rows = <<>> THEN <<>>
    ELSE InsertById(SortedById(SubSeq(rows, 1, Len(rows) - 1)), rows[Len(rows)])

\* hasattr, getattr and the choice of the branch
CoeffStart ==
    /\ pc = "coeff_start"
    /\ IF ~ forcefield.exposed
       THEN pc' = "raised" /\ err' = "AttributeError"
       ELSE IF param_name = "pairs"
            THEN IF forcefield.is_none
                 THEN pc' = "raised" /\ err' = "AttributeError"
                 ELSE pc' = "coeff_items" /\ err' = err
            ELSE IF ~ forcefield.is_none /\ forcefield.items # <<>>
                 THEN pc' = "coeff_items" /\ err' = err
                 ELSE pc' = "coeff_done" /\ err' = err
    /\ param_coeffs' = <<>> /\ param_map' = <<>>
    /\ UNCHANGED <<op, inputVars, remapVars, emitVars, mol_param_id, skip,
                   param_data, scanned, infoVars, codecVars, forcefield, param_name>>

\* body of "for i, item in enumerate(param.items())"
CoeffItem ==
    /\ pc = "coeff_items"
    /\ i < Len(forcefield.items)
    /\ LET item == At(forcefield.items, i)
       IN  IF param_name = "pairs"
           THEN IF item[1][1] \notin DOMAIN atomic_masses_dict
                THEN /\ pc' = "raised" /\ err' = "KeyError"
                     /\ UNCHANGED <<param_coeffs, param_map, i>>
                ELSE /\ param_coeffs' = Append(param_coeffs, <<PairId(item)>> \o item[2])
                     /\ i' = i + 1
                     /\ UNCHANGED <<pc, err, param_map>>
           ELSE /\ param_coeffs' = Append(param_coeffs, <<NonPairId(i)>> \o item[2])
                /\ param_map' = [k \in DOMAIN param_map \cup {item[1]} |->
                                    IF k = item[1] THEN NonPairId(i) ELSE param_map[k]]
                /\ i' = i + 1
                /\ UNCHANGED <<pc, err>>
    /\ UNCHANGED <<op, inputVars, remapVars, atoms_data, mol_param_id, skip,
                   param_data, scanned, infoVars, codecVars, forcefield, param_name>>

\* the sort of the pair rows, and "return param_coeffs, param_map"
CoeffReturn ==
    /\ pc = "coeff_items"
    /\ i = Len(forcefield.items)
    /\ param_coeffs' = IF param_name = "pairs" THEN SortedById(param_coeffs)
                       ELSE param_coeffs
    /\ pc' = "coeff_done"
    /\ UNCHANGED <<op, err, inputVars, remapVars, emitVars, param_map, mol_param_id,
                   skip, param_data, scanned, infoVars, codecVars, forcefield, param_name>>

NextCoeff == CoeffStart \/ CoeffItem \/ CoeffReturn

\* the sites the atom types of the pair keys come from
CoeffSites == [k \in 1..3 |-> [label |-> ElementOf[k], mass |-> ElementMass[ElementOf[k]], x |-> 0]]

\* The ForceField attribute: not there at all, there and None, or a dict.
InitCoeff ==
    /\ op = "get_param_coeff"
    /\ param_name \in {"pairs", "bonds"}
    /\ \/ forcefield = [exposed |-> FALSE, is_none |-> TRUE, items |-> <<>>]
       \/ forcefield = [exposed |-> TRUE, is_none |-> TRUE, items |-> <<>>]
       \/ \E order \in Orderings(IF param_name = "pairs" THEN PairKeys ELSE BondKeys) :
             forcefield = [exposed |-> TRUE, is_none |-> FALSE, items |-> ItemsOf(order)]
    /\ molecule = CoeffSites
    /\ atomic_masses_dict = AtomicMassesDict(molecule)
    /\ mols = <<>> /\ mols_number = <<>> /\ topologies = <<>>
    /\ InitLocals /\ pc = "coeff_start"
    /\ param_map = <<>> /\ param_coeffs = <<>>
    /\ IdleInfo /\ IdleCodec

SpecCoeff == InitCoeff /\ [][NextCoeff]_vars

CoeffEnded == op = "get_param_coeff" /\ pc \in {"coeff_done", "raised"}

\* C9 as claimed: get_param_coeff raises, and then AttributeError, exactly
\* when the force field does not expose the category; when the category is
\* exposed and its data is None or empty it returns an empty table and an
\* empty key map.
C9_RaisesOnlyWhenNotExposed ==
    CoeffEnded =>
        /\ pc = "raised" <=> ~ forcefield.exposed
        /\ pc = "raised" => err = "AttributeError"
        /\ (forcefield.exposed /\ (forcefield.is_none \/ forcefield.items = <<>>))
              => (pc = "coeff_done" /\ param_coeffs = <<>> /\ param_map = <<>>)

InputKeys == {forcefield.items[k][1] : k \in 1..Len(forcefield.items)}

\* C10: for a category other than pairs with data, row k has id k and the
\* values of the k-th input item, and key_to_id maps exactly the input keys,
\* the k-th to k; for pairs the rows are the input rows with the id
\* atom_types_map[key[0]][0], in ascending order of id (input order among
\* equal ids), and the key map is empty.
C10_CoeffTable ==
    (op = "get_param_coeff" /\ pc = "coeff_done" /\ forcefield.items # <<>>) =>
        /\ Len(param_coeffs) = Len(forcefield.items)
        /\ param_name # "pairs" =>
              /\ DOMAIN param_map = InputKeys
              /\ \A k \in 1..Len(forcefield.items) :
                    /\ param_coeffs[k][1] = k
                    /\ param_map[forcefield.items[k][1]] = k
                    /\ Tail(param_coeffs[param_map[forcefield.items[k][1]]])
                          = forcefield.items[k][2]
        /\ param_name = "pairs" =>
              /\ param_map = <<>>
              /\ \A k \in 1..(Len(param_coeffs) - 1) :
                    param_coeffs[k][1] <= param_coeffs[k + 1][1]
              /\ \A k \in 1..Len(forcefield.items) :
                    \E r \in 1..Len(param_coeffs) :
                        /\ param_coeffs[r][1] =
                              atomic_masses_dict[forcefield.items[k][1][1]][1]
                        /\ Tail(param_coeffs[r]) = forcefield.items[k][2]

\* A pair table of at least three rows was returned whose input order is
\* not the order of the atom type ids.
C10_Witness ==
    /\ op = "get_param_coeff" /\ pc = "coeff_done"
    /\ Len(forcefield.items) >= 3
    /\ param_name = "pairs"
    /\ atomic_masses_dict[forcefield.items[1][1][1]][1]
          > atomic_masses_dict[forcefield.items[2][1][1]][1]

(* ============================ text codec ============================== *)
\* Numbers. A number is an int or a float and has a value, held in tenths:
\* I(3) is the int 3, F(25) the float 2.5, F(30) the float 3.0.
I(n) == [int |-> TRUE, v |-> 10 * n]
F(tenths) == [int |-> FALSE, v |-> tenths]

\* str(x): the text "3" for the int 3, "3.0" for the float 3.0
Str(x) == [dotted |-> ~ x.int, v |-> x.v]
\* float(text)
PyFloat(tok) == [int |-> FALSE, v |-> tok.v]
\* int(x) of a non-negative float: the fraction is cut off
PyInt(x) == [int |-> TRUE, v |-> (x.v \div 10) * 10]
\* int(text) of a text of digits
PyIntOfDigits(tok) == [int |-> TRUE, v |-> tok.v]

\* Lines of the text. kind is what the line looks like: "blank", "text"
\* (words), "count" ("<int> <word>"), "types" ("<int> <word> types"), "box"
\* ("<num> <num> <a>lo <a>hi"), "tilt", "keyword" (a block name) or "row"
\* (numbers only).
Line(kind, word, toks) == [kind |-> kind, word |-> word, toks |-> toks]
Blank == Line("blank", "", <<>>)
RowLine(row) == Line("row", "", [k \in 1..Len(row) |-> Str(row[k])])

\* set_lines_from_list: "if input_list:" the block name between blank lines,
\* then one line of str(x) joined by spaces per row
SetLinesFromList(block_name, input_list) ==
    IF input_list # <<>>
    THEN <<Blank, Line("keyword", block_name, <<>>), Blank>>
            \o [k \in 1..Len(input_list) |-> RowLine(input_list[k])]
    ELSE <<>>

CountLine(n, word) == Line("count", word, <<Str(I(n))>>)
TypesLine(n, word) == Line("types", word, <<Str(I(n))>>)
BoxLine(pair, axis) == Line("box", axis, <<Str(pair[1]), Str(pair[2])>>)

\* the counts __init__ derives from the tables
ndih(o) == Len(o.dihedrals_data)
nimdihs(o) == Len(o.imdihedrals_data)

\* LammpsForceFieldData.__str__: the lines of '\n'.join(lines)
StrLines(o) ==
    <<Line("text", "Data file generated by pymatgen", <<>>), Blank>>
    \o <<CountLine(Len(o.atoms_data), "atoms"),
         CountLine(Len(o.bonds_data), "bonds"),
         CountLine(Len(o.angles_data), "angles")>>
    \o (IF ndih(o) > 0 THEN <<CountLine(ndih(o), "dihedrals")>> ELSE <<>>)
    \o (IF nimdihs(o) > 0 THEN <<CountLine(nimdihs(o), "impropers")>> ELSE <<>>)
    \o <<Blank,
         TypesLine(Len(o.atomic_masses), "atom"),
         TypesLine(Len(o.bond_coeffs), "bond"),
         TypesLine(Len(o.angle_coeffs), "angle")>>
    \o (IF ndih(o) > 0 THEN <<TypesLine(Len(o.dihedral_coeffs), "dihedral")>> ELSE <<>>)
    \o (IF nimdihs(o) > 0 THEN <<TypesLine(Len(o.improper_coeffs), "improper")>> ELSE <<>>)
    \o <<Blank, BoxLine(o.box_size[1], "x"), BoxLine(o.box_size[2], "y"),
         BoxLine(o.box_size[3], "z")>>
    \o SetLinesFromList("Masses", o.atomic_masses)
    \o SetLinesFromList("Pair Coeffs", o.pair_coeffs)
    \o SetLinesFromList("Bond Coeffs", o.bond_coeffs)
    \o SetLinesFromList("Angle Coeffs", o.angle_coeffs)
    \o (IF ndih(o) > 0 THEN SetLinesFromList("Dihedral Coeffs", o.dihedral_coeffs)
        ELSE <<>>)
    \o (IF nimdihs(o) > 0 THEN SetLinesFromList("Improper Coeffs", o.improper_coeffs)
        ELSE <<>>)
    \o SetLinesFromList("Atoms", o.atoms_data)
    \o SetLinesFromList("Bonds", o.bonds_data)
    \o SetLinesFromList("Angles", o.angles_data)
    \o (IF ndih(o) > 0 THEN SetLinesFromList("Dihedrals", o.dihedrals_data) ELSE <<>>)
    \o (IF nimdihs(o) > 0 THEN SetLinesFromList("Impropers", o.imdihedrals_data)
        ELSE <<>>)

\* write_data_file: the text of the object
Serialize ==
    /\ pc = "str"
    /\ lines' = StrLines(obj)
    /\ pc' = "parse"
    /\ UNCHANGED <<op, err, inputVars, remapVars, emitVars, paramVars, infoVars,
                   coeffVars, obj, lineno, parse_key, data, obj2, text2>>

SECTION_KEYWORDS ==
    {"atoms", "velocities", "masses", "ellipsoids", "lines", "triangles", "bodies",
     "bonds", "angles", "dihedrals", "impropers",
     "pair coeffs", "pairij coeffs", "bond coeffs", "angle coeffs",
     "dihedral coeffs", "improper coeffs",
     "bondbond coeffs", "bondangle coeffs", "middlebondtorsion coeffs",
     "endbondtorsion coeffs", "angletorsion coeffs", "angleangletorsion coeffs",
     "bondbond13 coeffs", "angleangle coeffs"}

\* line.split("#")[0].strip(): the line without its comment
StripComment(line) ==
    IF line.kind = "comment" THEN Line("blank", "", <<>>)
    ELSE IF line.word = "ATOMS # full" THEN [line EXCEPT !.word = "ATOMS"]
    ELSE line

\* line.lower(), for the block names that are written with capitals
Lower(w) ==
    CASE w = "Masses" -> "masses"
      [] w = "Pair Coeffs" -> "pair coeffs"
      [] w = "Bond Coeffs" -> "bond coeffs"
      [] w = "Angle Coeffs" -> "angle coeffs"
      [] w = "Dihedral Coeffs" -> "dihedral coeffs"
      [] w = "Improper Coeffs" -> "improper coeffs"
      [] w = "Atoms" -> "atoms"
      [] w = "Bonds" -> "bonds"
      [] w = "Angles" -> "angles"
      [] w = "Dihedrals" -> "dihedrals"
      [] w = "Impropers" -> "impropers"
      [] w = "ATOMS" -> "atoms"
      [] OTHER -> w

\* key.replace(" ", "-")
Dashed(w) ==
    CASE w = "pair coeffs" -> "pair-coeffs"
      [] w = "bond coeffs" -> "bond-coeffs"
      [] w = "angle coeffs" -> "angle-coeffs"
      [] w = "dihedral coeffs" -> "dihedral-coeffs"
      [] w = "improper coeffs" -> "improper-coeffs"
      [] OTHER -> w

\* d[k] = val on a dict held as a function
Put(d, k, val) == [x \in DOMAIN d \cup {k} |-> IF x = k THEN val ELSE d[x]]

\* "if line.lower() in SECTION_KEYWORDS"
IsSectionKeyword(line) == line.kind = "keyword" /\ Lower(line.word) \in SECTION_KEYWORDS

\* the else branch: the header patterns, tried as types, box, count, tilt
ParseHeader(line, hdr) ==
    IF line.kind = "types"
    THEN Put(hdr, <<line.word, "-types">>, PyIntOfDigits(line.toks[1]))
    ELSE IF line.kind = "box"
    THEN Put(hdr, <<line.word>>, <<PyFloat(line.toks[1]), PyFloat(line.toks[2])>>)
    ELSE IF line.kind = "count"
    THEN Put(hdr, <<"n", line.word>>, PyIntOfDigits(line.toks[1]))
    ELSE IF line.kind = "tilt"
    THEN Put(hdr, <<"xy-xz-yz">>, [k \in 1..3 |-> PyFloat(line.toks[k])])
    ELSE hdr

\* "data[key] = []" when the keyword of a section is read, forgetting that
\* only a section not yet seen starts empty
StartSection_KeepRows(sec, key) == IF key \in DOMAIN sec THEN sec ELSE Put(sec, key, <<>>)

\* "data[key] = []": the section starts with a fresh empty list
StartSection(sec, key) == Put(sec, key, <<>>)

\* body of "for line in f" of parse_data_file
ParseLine ==
    /\ pc = "parse"
    /\ lineno < Len(lines)
    /\ LET line == StripComment(At(lines, lineno))
       IN  IF line.kind = "blank"
           THEN UNCHANGED <<parse_key, data, pc, err>> /\ lineno' = lineno + 1
           ELSE IF IsSectionKeyword(line)
           THEN /\ parse_key' = Dashed(Lower(line.word))
                /\ data' = [data EXCEPT !.sec = StartSection(@, Dashed(Lower(line.word)))]
                /\ lineno' = lineno + 1
                /\ UNCHANGED <<pc, err>>
           ELSE IF parse_key # "" /\ parse_key \in DOMAIN data.sec
           THEN IF line.kind = "row"
                THEN /\ data' = [data EXCEPT !.sec[parse_key] =
                              Append(@, [k \in 1..Len(line.toks) |-> PyFloat(line.toks[k])])]
                     /\ lineno' = lineno + 1
                     /\ UNCHANGED <<parse_key, pc, err>>
                ELSE /\ pc' = "raised" /\ err' = "ValueError"
                     /\ UNCHANGED <<parse_key, data, lineno>>
           ELSE /\ data' = [data EXCEPT !.hdr = ParseHeader(line, @)]
                /\ lineno' = lineno + 1
                /\ UNCHANGED <<parse_key, pc, err>>
    /\ UNCHANGED <<op, inputVars, remapVars, emitVars, paramVars, infoVars,
                   coeffVars, obj, lines, obj2, text2>>

\* _get_coeffs: "[int(x[0])] + x[1:]" for the rows of a section, [] without it
GetCoeffs(d, name) ==
    IF name \in DOMAIN d.sec
    THEN [k \in 1..Len(d.sec[name]) |->
             <<PyInt(d.sec[name][k][1])>> \o Tail(d.sec[name][k])]
    ELSE <<>>

\* _get_non_atoms: "[int(xi) for xi in x]"
GetNonAtoms(d, name) ==
    IF name \in DOMAIN d.sec
    THEN [k \in 1..Len(d.sec[name]) |->
             [n \in 1..Len(d.sec[name][k]) |-> PyInt(d.sec[name][k][n])]]
    ELSE <<>>

\* "[int(xi) for xi in x[:3]] + x[3:]"
GetAtoms(d) ==
    IF "atoms" \in DOMAIN d.sec
    THEN [k \in 1..Len(d.sec["atoms"]) |->
             [n \in 1..Len(d.sec["atoms"][k]) |->
                 IF n <= 3 THEN PyInt(d.sec["atoms"][k][n]) ELSE d.sec["atoms"][k][n]]]
    ELSE <<>>

\* the object from_file builds from the parsed dict
FromFileObject(d) ==
    [box_size |-> <<d.hdr[<<"x">>], d.hdr[<<"y">>], d.hdr[<<"z">>]>>,
     atomic_masses |-> [k \in 1..Len(d.sec["masses"]) |->
                           <<PyInt(d.sec["masses"][k][1]), d.sec["masses"][k][2]>>],
     pair_coeffs |-> GetCoeffs(d, "pair-coeffs"),
     bond_coeffs |-> GetCoeffs(d, "bond-coeffs"),
     angle_coeffs |-> GetCoeffs(d, "angle-coeffs"),
     dihedral_coeffs |-> GetCoeffs(d, "dihedral-coeffs"),
     improper_coeffs |-> GetCoeffs(d, "improper-coeffs"),
     atoms_data |-> GetAtoms(d),
     bonds_data |-> GetNonAtoms(d, "bonds"),
     angles_data |-> GetNonAtoms(d, "angles"),
     dihedrals_data |-> GetNonAtoms(d, "dihedrals"),
     imdihedrals_data |-> GetNonAtoms(d, "impropers")]

\* from_file, once parse_data_file has read the last line
FromFile ==
    /\ pc = "parse"
    /\ lineno = Len(lines)
    /\ IF "masses" \notin DOMAIN data.sec
          \/ {<<"x">>, <<"y">>, <<"z">>} \ DOMAIN data.hdr # {}
       THEN pc' = "raised" /\ err' = "KeyError" /\ obj2' = obj2
       ELSE IF \E k \in 1..Len(data.sec["masses"]) : Len(data.sec["masses"][k]) < 2
       THEN pc' = "raised" /\ err' = "IndexError" /\ obj2' = obj2
       ELSE pc' = "from_file_done" /\ err' = err /\ obj2' = FromFileObject(data)
    /\ UNCHANGED <<op, inputVars, remapVars, emitVars, paramVars, infoVars,
                   coeffVars, obj, lines, lineno, parse_key, data, text2>>

NextCodec == Serialize \/ ParseLine \/ FromFile

\* Tables of n rows as assembly builds them: ids are ints, masses, charges,
\* coordinates and coefficients are floats or ints.
MassRows(n) == [k \in 1..n |-> <<I(k), F(120 + k)>>]
CoeffRows(n, code) == [k \in 1..n |-> <<I(k), F(code + k), I(3)>>]
AtomRows(n) == [k \in 1..n |-> <<I(k), I(1), I(k), F(5), F(10 * k + 5), F(0), I(2)>>]
DataRows(n, arity) == [k \in 1..n |-> <<I(k), I(1)>> \o [a \in 1..arity |-> I(1)]]

\* The sizes of the tables of a bonded category: records only with types.
CategorySizes == {cr \in (0..MaxRows) \X (0..MaxRows) : cr[2] > 0 => cr[1] > 0}

\* A LammpsForceFieldData object as from_forcefield_and_topology returns
\* it: at least one atom, one mass row per atom type, pair coefficients for
\* none or all atom types; the angle tables have the sizes of the bond
\* tables.
InitCodec ==
    /\ op = "roundtrip"
    /\ \E natoms \in 1..MaxRows, pairs \in BOOLEAN,
          b \in CategorySizes, d \in CategorySizes, im \in CategorySizes :
          obj = [box_size |-> <<(<<F(0), F(105)>>), (<<I(0), I(10)>>), (<<F(5), F(200)>>)>>,
                 atomic_masses |-> MassRows(natoms),
                 pair_coeffs |-> IF pairs THEN CoeffRows(natoms, 10) ELSE <<>>,
                 bond_coeffs |-> CoeffRows(b[1], 20),
                 angle_coeffs |-> CoeffRows(b[1], 30),
                 dihedral_coeffs |-> CoeffRows(d[1], 40),
                 improper_coeffs |-> CoeffRows(im[1], 50),
                 atoms_data |-> AtomRows(natoms),
                 bonds_data |-> DataRows(b[2], 2),
                 angles_data |-> DataRows(b[2], 3),
                 dihedrals_data |-> DataRows(d[2], 4),
                 imdihedrals_data |-> DataRows(im[2], 4)]
    /\ lines = <<>> /\ lineno = 0 /\ parse_key = ""
    /\ data = [sec |-> <<>>, hdr |-> <<>>] /\ obj2 = <<>> /\ text2 = <<>>
    /\ molecule = <<>> /\ atomic_masses_dict = <<>>
    /\ mols = <<>> /\ mols_number = <<>> /\ topologies = <<>>
    /\ InitLocals /\ pc = "str"
    /\ param_map = <<>>
    /\ IdleInfo /\ IdleCoeff

SpecCodec == InitCodec /\ [][NextCodec]_vars

\* equality of numbers as Python has it: 3 == 3.0
SameRow(r1, r2) == Len(r1) = Len(r2) /\ \A k \in 1..Len(r1) : r1[k].v = r2[k].v
SameTable(t1, t2) == Len(t1) = Len(t2) /\ \A k \in 1..Len(t1) : SameRow(t1[k], t2[k])

RoundTripEnded == op = "roundtrip" /\ pc \in {"from_file_done", "raised"}

\* C4 as claimed: an assembled object written with __str__ and read back
\* with from_file comes back with the same atom records, the same pair,
\* bond, angle, dihedral and improper coefficient tables and the same box.
C4_RoundTrip ==
    RoundTripEnded =>
        /\ pc = "from_file_done"
        /\ SameTable(obj2.atoms_data, obj.atoms_data)
        /\ SameTable(obj2.pair_coeffs, obj.pair_coeffs)
        /\ SameTable(obj2.bond_coeffs, obj.bond_coeffs)
        /\ SameTable(obj2.angle_coeffs, obj.angle_coeffs)
        /\ SameTable(obj2.dihedral_coeffs, obj.dihedral_coeffs)
        /\ SameTable(obj2.improper_coeffs, obj.improper_coeffs)
        /\ SameTable(obj2.box_size, obj.box_size)

\* the text has a line of this kind and word
HasLine(text, kind, word) ==
    \E k \in 1..Len(text) : text[k].kind = kind /\ text[k].word = word

\* the text has the "<n> <word> types" line with this n
HasTypesLine(text, word, n) ==
    \E k \in 1..Len(text) :
        text[k].kind = "types" /\ text[k].word = word /\ text[k].toks[1] = Str(I(n))

Written == op = "roundtrip" /\ pc # "str"

\* C11 as claimed: in the text of __str__ a count line "N bonds", "N angles",
\* "N dihedrals" or "N impropers" is listed only for a category that has
\* records; a category with zero records has no count line.
C11_CountLineOnlyIfRecords ==
    Written =>
        /\ HasLine(lines, "count", "bonds") => Len(obj.bonds_data) > 0
        /\ HasLine(lines, "count", "angles") => Len(obj.angles_data) > 0
        /\ HasLine(lines, "count", "dihedrals") => Len(obj.dihedrals_data) > 0
        /\ HasLine(lines, "count", "impropers") => Len(obj.imdihedrals_data) > 0

\* C12 as claimed: __str__ lists "N dihedral types" (resp. "N improper
\* types") and writes the "Dihedral Coeffs" (resp. "Improper Coeffs") block
\* exactly when that coefficient table is non-empty, with N the length of the
\* table.
C12_TypesLineAndBlockIffTable ==
    Written =>
        /\ HasLine(lines, "types", "dihedral") <=> obj.dihedral_coeffs # <<>>
        /\ HasLine(lines, "types", "dihedral")
              => HasTypesLine(lines, "dihedral", Len(obj.dihedral_coeffs))
        /\ HasLine(lines, "keyword", "Dihedral Coeffs") <=> obj.dihedral_coeffs # <<>>
        /\ HasLine(lines, "types", "improper") <=> obj.improper_coeffs # <<>>
        /\ HasLine(lines, "types", "improper")
              => HasTypesLine(lines, "improper", Len(obj.improper_coeffs))
        /\ HasLine(lines, "keyword", "Improper Coeffs") <=> obj.improper_coeffs # <<>>

(* ------------------- a data file read and written again ----------------- *)
\* write_data_file of the object from_file returned
Reserialize ==
    /\ op = "from_file"
    /\ pc = "from_file_done"
    /\ text2' = StrLines(obj2)
    /\ pc' = "written"
    /\ UNCHANGED <<op, err, inputVars, remapVars, emitVars, paramVars, infoVars,
                   coeffVars, obj, lines, lineno, parse_key, data, obj2>>

NextFile == ParseLine \/ FromFile \/ Reserialize

\* The lines a data file is made of here: a line of words, section keywords
\* (one in capitals with a trailing comment) and two rows of numbers.
TextLine == Line("text", "created by a tool", <<>>)
FileRow1 == Line("row", "", <<Str(I(1)), Str(I(2))>>)
FileRow2 == Line("row", "", <<Str(I(2)), Str(F(10))>>)
FileLines ==
    {TextLine, FileRow1, FileRow2,
     Line("keyword", "Masses", <<>>), Line("keyword", "ATOMS # full", <<>>),
     Line("keyword", "Dihedral Coeffs", <<>>), Line("keyword", "Dihedrals", <<>>)}

\* title, a comment line and the box, before the body of the file
FileHead ==
    <<Line("text", "LAMMPS data file", <<>>), Line("comment", "", <<>>),
      BoxLine(<<F(0), F(105)>>, "x"), BoxLine(<<I(0), I(10)>>, "y"),
      BoxLine(<<F(5), F(200)>>, "z")>>

\* from_file(data_file) on a file of FileHead and up to MaxLines more lines
InitFile ==
    /\ op = "from_file"
    /\ \E n \in 0..MaxLines : \E body \in [1..n -> FileLines] : lines = FileHead \o body
    /\ obj = <<>> /\ lineno = 0 /\ parse_key = ""
    /\ data = [sec |-> <<>>, hdr |-> <<>>] /\ obj2 = <<>> /\ text2 = <<>>
    /\ molecule = <<>> /\ atomic_masses_dict = <<>>
    /\ mols = <<>> /\ mols_number = <<>> /\ topologies = <<>>
    /\ InitLocals /\ pc = "parse"
    /\ param_map = <<>>
    /\ IdleInfo /\ IdleCoeff

SpecFile == InitFile /\ [][NextFile]_vars

\* C13 as claimed: parse_data_file never aborts on a malformed line; a line
\* of words that is no section keyword and matches no header pattern is
\* ignored wherever it stands, so the parse never ends in an error at such a
\* line.
C13_MalformedLineIgnored ==
    (op = "from_file" /\ pc = "raised" /\ lineno < Len(lines))
        => StripComment(At(lines, lineno)).kind # "text"

\* line k of the text is the keyword of a section, and which
IsKeywordAt(text, k) == IsSectionKeyword(StripComment(text[k]))
KeyAt(text, k) == Dashed(Lower(StripComment(text[k]).word))

IsRow(line) == line.kind = "row"
Max(S) == CHOOSE x \in S : \A y \in S : y <= x
Min(S) == CHOOSE x \in S : \A y \in S : x <= y

\* the rows that stand among the first n lines of the text between the last
\* keyword line of section sk and the keyword line that follows it
RowsOfSection(text, sk, n) ==
    LET last == Max({k \in 1..n : IsKeywordAt(text, k) /\ KeyAt(text, k) = sk})
        stop == Min({k \in (last + 1)..n : IsKeywordAt(text, k)} \cup {n + 1})
        rows == SelectSeq(SubSeq(text, last + 1, stop - 1), IsRow)
    IN  [k \in 1..Len(rows) |-> [j \in 1..Len(rows[k].toks) |-> PyFloat(rows[k].toks[j])]]

\* C14: after any number of lines read, the sections of the dict are the
\* keywords read so far (matched without comment and case), and the list of
\* each holds exactly the rows between the last line of its keyword and the
\* next keyword line, in file order.
C14_RowsGoToCurrentSection ==
    op = "from_file" =>
        /\ DOMAIN data.sec = {KeyAt(lines, k) : k \in {j \in 1..lineno : IsKeywordAt(lines, j)}}
        /\ \A sk \in DOMAIN data.sec : data.sec[sk] = RowsOfSection(lines, sk, lineno)

\* a keyword read twice, rows read after each, in a file read to its end
C14_Witness ==
    /\ op = "from_file" /\ pc = "parse" /\ lineno = Len(lines)
    /\ \E a \in 1..Len(lines), b \in 1..Len(lines) :
          /\ a + 1 < b
          /\ IsKeywordAt(lines, a) /\ IsKeywordAt(lines, b)
          /\ KeyAt(lines, a) = "atoms" /\ KeyAt(lines, b) = "atoms"
          /\ IsRow(lines[a + 1])
          /\ Len(data.sec["atoms"]) = 1

\* C17 as claimed: a file read with from_file and written with __str__
\* holds every section of the original that has rows, with the same rows in
\* the same order.
C17_SectionsSurviveRewrite ==
    (op = "from_file" /\ pc = "written") =>
        \A sk \in DOMAIN data.sec :
            data.sec[sk] # <<>> =>
                /\ \E k \in 1..Len(text2) : IsKeywordAt(text2, k) /\ KeyAt(text2, k) = sk
                /\ SameTable(RowsOfSection(text2, sk, Len(text2)), data.sec[sk])

\* the charge the topology of molecule type t (1-based) gives local atom l
\* (0-based): its entry of the charge list if the topology has a non-empty
\* one, else 0.0
OwnerCharge(t, l) ==
    IF topologies[t].has_charges /\ topologies[t].charges # <<>>
    THEN At(topologies[t].charges, l)
    ELSE 0

\* C15 as claimed: every record emitted by get_atoms_data carries the charge
\* that the topology of the molecule type owning the atom gives its local
\* index, 0.0 if that topology has no charges; no other topology matters, so
\* no lookup fails for want of an attribute on another topology.
C15_ChargeOfOwningTopology ==
    op = "get_atoms_data" =>
        /\ err # "AttributeError"
        /\ \A k \in 1..Len(atoms_data) :
              atoms_data[k][4] = OwnerCharge(atom_to_mol[k - 1][1] + 1, atom_to_mol[k - 1][3])

\* the topology entry a step of the scan visited
EntryOf(visit) == At(ParamObj(visit.mol_type), visit.entry)

\* C16 as claimed: get_param_data does not tolerate a malformed topology;
\* an entry with a local atom index that is negative or not below the atom
\* count of its molecule type raises an error, so every entry the scan got
\* past and emitted a record for has all its indices within 0..natoms-1.
C16_MalformedIndexRaises ==
    op = "get_param_data" =>
        \A j \in 1..Len(scanned) :
            scanned[j].emitted =>
                \A a \in 1..Len(EntryOf(scanned[j]).atoms) :
                    /\ EntryOf(scanned[j]).atoms[a] >= 0
                    /\ EntryOf(scanned[j]).atoms[a] < At(mols, scanned[j].mol_type)

\* C18: the instance counter of get_param_data is the global molecule
\* number of the instance being scanned (instances of earlier types plus
\* instances of this type done), and every record's atom ids are atoms of
\* that one instance: get_atoms_data files each under the molecule type that
\* supplied the entry, under that instance's molecule id and under the
\* entry's local index.
C18_InstanceCounterInStep ==
    op = "get_param_data" =>
        /\ pc = "scan" => mol_id = SumTo(mols_number, mol_type) + num_mol_id
        /\ \A j \in 1..Len(scanned) :
              scanned[j].emitted =>
                  \A a \in 1..Len(RecordOf(j).atoms) :
                      /\ RecordOf(j).atoms[a] - 1 \in DOMAIN atom_to_mol
                      /\ atom_to_mol[RecordOf(j).atoms[a] - 1] =
                            <<scanned[j].mol_type, scanned[j].mol_id,
                              EntryOf(scanned[j]).atoms[a]>>
                      /\ \E l \in 1..Len(molid_to_atomid[scanned[j].mol_id + 1]) :
                            molid_to_atomid[scanned[j].mol_id + 1][l] = RecordOf(j).atoms[a] - 1

\* a record emitted for an instance of the second molecule type, after an
\* instance of the first type
C18_Witness ==
    /\ op = "get_param_data" /\ pc = "param_done"
    /\ \E j \in 1..Len(scanned) :
          scanned[j].emitted /\ scanned[j].mol_type = 1 /\ scanned[j].mol_id >= 1

====
